---- MODULE Spec2Model ----
(***************************************************************************)
(* Model of utils.py (single-cell analysis helpers).  Every function of    *)
(* the file is a stateless call: a call is modelled as a small step        *)
(* program whose position is pc, whose arguments are args, and whose       *)
(* locals are the remaining variables.  Init draws the arguments of one    *)
(* call from bounded sets.                                                 *)
(*                                                                         *)
(* Strings are sequences of one-character strings, so that regular         *)
(* expression matching and letter case are computed, not assumed.          *)
(***************************************************************************)
EXTENDS Integers, Sequences, FiniteSets, TLC

VARIABLES
    fn,         \* the function being called
    pc,         \* position inside the call
    args,       \* the arguments of the call (a record)
    outcome,    \* "running", "returned" or the exception raised
    log,        \* observable events so far: reads of adata entries, prints
    msg,        \* the message of the exception raised, as its parts
    matches,    \* check_markers: the result dict
    gi,         \* check_markers: index of the next column of de_genes
    var_names,  \* plot_markers: the feature names searched
    use_raw,    \* plot_markers: the local use_raw
    genes,      \* plot_markers: the resolved feature names
    grid,       \* plot_markers: n_row and n_col of the gridspec
    panel,      \* plot_markers: the loop index i of the plotting loop
    batch_distr, \* cluster_distr: the table built
    bi,         \* cluster_distr: index of the next batch of the loop
    conv_table, \* map_to_mgi: the conversion table
    mapping,    \* map_to_mgi: the joined table
    mgi_symbols, \* map_to_mgi: adata.var['mgi_symbols']
    table       \* de_results: the table returned

vars == <<fn, pc, args, outcome, log, msg, matches, gi,
          var_names, use_raw, genes, grid, panel, batch_distr, bi,
          conv_table, mapping, mgi_symbols, table>>
mgVars == <<conv_table, mapping, mgi_symbols>>
drVars == <<table>>
cdVars == <<batch_distr, bi>>
cmVars == <<matches, gi>>
pmVars == <<var_names, use_raw, genes, grid, panel>>

Nil == "None"

\* ------------------------------------------------------------- bounds
\* longest column of the DE table
MaxDE == 2
\* longest pattern list of a marker category
MaxPat == 2

\* ------------------------------------------------------------ strings
Cd3e  == <<"C", "d", "3", "e">>
CD3E  == <<"C", "D", "3", "E">>
Foxp3 == <<"F", "o", "x", "p", "3">>
\* patterns
p_cd3e == <<"c", "d", "3", "e">>
p_Cd3  == <<"C", "d", "3">>
p_Cd3x == <<"C", "d", "3", ".">>
Tcell  == <<"T", "c", "e", "l", "l">>
Treg   == <<"T", "r", "e", "g">>

\* str.lower() on one character, as re.IGNORECASE folds it
Lower(ch) ==
    CASE ch = "C" -> "c"
      [] ch = "D" -> "d"
      [] ch = "E" -> "e"
      [] ch = "F" -> "f"
      [] ch = "G" -> "g"
      [] ch = "T" -> "t"
      [] OTHER -> ch

\* all sequences over S without repetition, of length lo..hi
DistinctSeqs(S, lo, hi) ==
    UNION { { s \in [1..n -> S] : \A i, j \in 1..n : i # j => s[i] # s[j] }
            : n \in lo..hi }

\* ----------------------------------------------------- regular expressions
\* A compiled pattern is its sequence of tokens: "^" and "$" are anchors,
\* "." is any character, every other token is a literal character.
RECURSIVE MatchHere(_, _, _, _, _)
MatchHere(re, ti, l, pos, icase) ==
    IF ti > Len(re) THEN TRUE
    ELSE LET t == re[ti] IN
         CASE t = "^" -> pos = 1 /\ MatchHere(re, ti + 1, l, pos, icase)
           [] t = "$" -> pos = Len(l) + 1 /\ MatchHere(re, ti + 1, l, pos, icase)
           [] t = "." -> pos <= Len(l) /\ MatchHere(re, ti + 1, l, pos + 1, icase)
           [] OTHER   -> /\ pos <= Len(l)
                         /\ IF icase THEN Lower(l[pos]) = Lower(t) ELSE l[pos] = t
                         /\ MatchHere(re, ti + 1, l, pos + 1, icase)

\* regex.search(l): a match starting at any position of l
Search(re, icase, l) ==
    \E pos \in 1..(Len(l) + 1) : MatchHere(re, 1, l, pos, icase)

\* [l for l in names for m in [regex.search(l)] if m]
Findall(re, icase, names) ==
    SelectSeq(names, LAMBDA l : Search(re, icase, l))

\* ------------------------------------------------------- check_markers
Clusters   == <<"0", "1">>
DENames    == {Cd3e, CD3E, Foxp3}
Patterns   == {p_cd3e, p_Cd3, p_Cd3x, Foxp3}
Categories == {Tcell, Treg}

\* a DE table: one column of gene names per cluster, all of one length,
\* a gene ranked once per cluster
DETables ==
    UNION { [ {Clusters[i] : i \in 1..Len(Clusters)} -> DistinctSeqs(DENames, n, n) ]
            : n \in 1..MaxDE }
MarkerDicts == [Categories -> DistinctSeqs(Patterns, 0, MaxPat)]

\* re.compile('^' + gene + '$', re.IGNORECASE)
MarkerRegexNoAnchor(gene) == gene
MarkerRegex(gene) == <<"^">> \o gene \o <<"$">>

MarkerIgnoreCase == TRUE

\* the loop over the patterns of one category: result[0] of each pattern
\* that finds something is appended to genes_found
AppendLast(genes_found, result) ==
    IF result # <<>> THEN Append(genes_found, result[Len(result)]) ELSE genes_found
AppendFirst(genes_found, result) ==
    IF result # <<>> THEN Append(genes_found, result[1]) ELSE genes_found

RECURSIVE GenesFound(_, _, _)
GenesFound(de_genes_group, pats, genes_found) ==
    IF pats = <<>> THEN genes_found
    ELSE LET regex  == MarkerRegex(Head(pats))
             result == Findall(regex, MarkerIgnoreCase, de_genes_group)
         IN GenesFound(de_genes_group, Tail(pats), AppendFirst(genes_found, result))

\* if genes_found: matches[group][key] = genes_found
SaveAlways(found) == found
SaveFound(found) ==
    [key \in {k \in DOMAIN found : found[k] # <<>>} |-> found[key]]

\* the body of the loop over the clusters: the entry of one cluster
GroupEntry(de_genes_group, marker_genes) ==
    SaveFound([key \in DOMAIN marker_genes |->
                 GenesFound(de_genes_group, marker_genes[key], <<>>)])

\* matches[group] = dict(), then the loop over the categories
SetGroupIfAny(m, group, entry) ==
    IF DOMAIN entry = {} THEN m
    ELSE [g \in DOMAIN m \cup {group} |-> IF g = group THEN entry ELSE m[g]]
SetGroup(m, group, entry) ==
    [g \in DOMAIN m \cup {group} |-> IF g = group THEN entry ELSE m[g]]

EmptyDict == [x \in {} |-> Nil]

\* the locals of map_to_mgi and de_results before the call binds them
MGIdle ==
    /\ conv_table = <<>>
    /\ mapping = <<>>
    /\ mgi_symbols = <<>>
DRIdle == table = EmptyDict

\* the locals of cluster_distr before the call binds them
CDIdle ==
    /\ batch_distr = EmptyDict
    /\ bi = 0

\* the locals of plot_markers before the call binds them
NoGrid == [n_row |-> 0, n_col |-> 0]
PMIdle ==
    /\ var_names = <<>>
    /\ use_raw = FALSE
    /\ genes = <<>>
    /\ grid = NoGrid
    /\ panel = 0

InitCM ==
    /\ fn = "check_markers"
    /\ pc = "loop"
    /\ args \in [de_genes : DETables, marker_genes : MarkerDicts]
    /\ outcome = "running"
    /\ log = <<>>
    /\ msg = <<>>
    /\ matches = EmptyDict
    /\ gi = 1
    /\ PMIdle
    /\ CDIdle
    /\ MGIdle
    /\ DRIdle

CM_Group ==
    /\ fn = "check_markers" /\ pc = "loop" /\ gi <= Len(Clusters)
    /\ LET group == Clusters[gi]
           de_genes_group == args.de_genes[group]
       IN matches' = SetGroup(matches, group,
                              GroupEntry(de_genes_group, args.marker_genes))
    /\ gi' = gi + 1
    /\ UNCHANGED <<fn, pc, args, outcome, log, msg, pmVars, cdVars, mgVars, drVars>>

CM_Return ==
    /\ fn = "check_markers" /\ pc = "loop" /\ gi > Len(Clusters)
    /\ pc' = "done"
    /\ outcome' = "returned"
    /\ UNCHANGED <<fn, args, log, msg, matches, gi, pmVars, cdVars, mgVars, drVars>>

NextCM == CM_Group \/ CM_Return

SpecCM == InitCM /\ [][NextCM]_vars

\* ---------------------------------------------------------- plot_markers
\* longest list of feature names of adata
MaxVars == 2
\* largest n_max passed
MaxNMax == 2
\* n_col of a multi-line grid
GridCols == 3

Gata1  == <<"G", "a", "t", "a", "1">>
Cd19   == <<"C", "d", "1", "9">>
CD3    == <<"C", "D", "3">>
CD4    == <<"C", "D", "4">>
k_Gata == <<"G", "a", "t", "a">>
Bcell  == <<"B", "c", "e", "l", "l">>

\* an optional value: <<>> is None, <<v>> is the value v
None == <<>>
Some(v) == <<v>>
Value(o) == o[1]

Ev(op, what) == [op |-> op, what |-> what, n |-> 0]
EvN(op, what, n) == [op |-> op, what |-> what, n |-> n]

\* 'X_' + basis
XKey(basis) == "X_" \o basis

PMKeys == {CD3, p_cd3e, k_Gata}
PMPatterns == {p_cd3e, p_Cd3x, Foxp3}
\* markers: None, or a dict with the categories "CD3" and "Bcell"
PMMarkers ==
    {None} \cup
    { Some([c \in {CD3, Bcell} |-> IF c = CD3 THEN ps ELSE <<Cd19>>])
      : ps \in DistinctSeqs(PMPatterns, 0, MaxPat) }
ProteinNames == <<CD4, CD3E, CD3>>
\* adata: the embeddings of obsm, the protein block (obsm['prot'] and
\* uns['prot_names']) or part of it, the feature names, and adata.raw, which
\* when present holds the features of adata and one filtered out of it
PMAdatas ==
    { [obsm |-> {"X_pca", "X_umap"} \cup po,
       uns  |-> IF pu THEN ("prot_names" :> ProteinNames) ELSE EmptyDict,
       var_names |-> v,
       raw  |-> IF r THEN Some([var_names |-> v \o <<Gata1>>]) ELSE None]
      : po \in {{}, {"prot"}}, pu \in BOOLEAN,
        v \in DistinctSeqs(DENames, 1, MaxVars), r \in BOOLEAN }
PMArgs ==
    { a \in [adata : PMAdatas, key : PMKeys, markers : PMMarkers,
             basis : {"umap", "tsne"}, n_max : 0..MaxNMax,
             use_raw : BOOLEAN, multi_line : BOOLEAN, ignore_case : BOOLEAN,
             protein : BOOLEAN, prot_key : {"prot"}, prot_names_key : {"prot_names"}]
      : ("prot" \in a.adata.obsm) => ("prot_names" \in DOMAIN a.adata.uns) }

InitPM ==
    /\ fn = "plot_markers"
    /\ pc = "start"
    /\ args \in PMArgs
    /\ outcome = "running"
    /\ log = <<>>
    /\ msg = <<>>
    /\ matches = EmptyDict
    /\ gi = 0
    /\ PMIdle
    /\ CDIdle
    /\ MGIdle
    /\ DRIdle

\* if 'X_' + basis not in adata.obsm.keys(): raise ValueError(...)
BasisCheckSkipped(adata, basis) == "ok"
BasisCheck(adata, basis) ==
    IF XKey(basis) \notin adata.obsm THEN "ValueError" ELSE "ok"

Raise(type, message) ==
    /\ pc' = "raised"
    /\ outcome' = type
    /\ msg' = message

\* lines 128-133: the check of the basis, then X_em = adata.obsm['X_' + basis]
PM_CheckBasis ==
    /\ fn = "plot_markers" /\ pc = "start"
    /\ IF BasisCheck(args.adata, args.basis) = "ValueError"
       THEN /\ Raise("ValueError",
                     <<"You have not computed the basis ", args.basis, " yet. ">>)
            /\ log' = log
       ELSE IF XKey(args.basis) \notin args.adata.obsm
       THEN /\ Raise("KeyError", <<XKey(args.basis)>>)
            /\ log' = Append(log, Ev("read", "adata.obsm"))
       ELSE /\ pc' = "names"
            /\ log' = Append(log, Ev("read", "adata.obsm"))
            /\ UNCHANGED <<outcome, msg>>
    /\ UNCHANGED <<fn, args, cmVars, cdVars, pmVars, mgVars, drVars>>

\* lines 135-149: feedback, then the feature names of adata.raw or adata
PM_VarNames ==
    /\ fn = "plot_markers" /\ pc = "names"
    /\ LET fb == log \o <<Ev("print", "Current key"), Ev("print", "Basis")>> IN
       IF args.use_raw
       THEN IF args.adata.raw # None
            THEN /\ var_names' = Value(args.adata.raw).var_names
                 /\ use_raw' = TRUE
                 /\ log' = fb \o <<Ev("print", "Using the rawdata"),
                                   Ev("read", "adata.raw.var_names")>>
            ELSE /\ var_names' = args.adata.var_names
                 /\ use_raw' = FALSE
                 /\ log' = fb \o <<Ev("print", "Using the rawdata"),
                                   Ev("read", "adata.raw.var_names"),
                                   Ev("read", "adata.var_names"),
                                   Ev("print", "adata.raw does not seem to exist")>>
       ELSE /\ var_names' = args.adata.var_names
            /\ use_raw' = FALSE
            /\ log' = Append(fb, Ev("read", "adata.var_names"))
    /\ pc' = "resolve"
    /\ UNCHANGED <<fn, args, outcome, msg, cmVars, cdVars, genes, grid, panel, mgVars, drVars>>

\* which branch of lines 152-213 runs
BranchCategoryFirst(markers, protein, key) ==
    IF markers # None /\ key \in DOMAIN Value(markers) THEN "category"
    ELSE IF protein THEN "protein"
    ELSE IF markers # None THEN "var_names" ELSE "no_markers"
Branch(markers, protein, key) ==
    IF markers # None /\ protein = FALSE
    THEN IF key \notin DOMAIN Value(markers) THEN "var_names" ELSE "category"
    ELSE IF protein = FALSE THEN "no_markers"
    ELSE "protein"

\* lines 157-160: both arms compile the key with re.IGNORECASE
VarNamesIgnoreCase(ignore_case) == IF ignore_case THEN TRUE ELSE TRUE

\* lines 172-182: the first feature each pattern of the category matches
RECURSIVE CategoryGenes(_, _, _, _)
CategoryGenes(genes_pre, names, ignore_case, acc) ==
    IF genes_pre = <<>> THEN acc
    ELSE LET gene   == Head(genes_pre)
             reg_ex == <<"^">> \o gene \o <<"$">>
             result == Findall(reg_ex, ignore_case, names)
         IN CategoryGenes(Tail(genes_pre), names, ignore_case,
               IF Len(result) > 0
               THEN [acc EXCEPT !.genes = Append(@, result[1])]
               ELSE [acc EXCEPT !.not_found = Append(@, gene)])

\* lines 188-196: for gene in key, with genes.append(*genes_), which takes
\* exactly one argument
RECURSIVE KeyLoop(_, _, _, _)
KeyLoop(key, names, ignore_case, acc) ==
    IF key = <<>> THEN [ok |-> TRUE, genes |-> acc]
    ELSE LET gene   == Head(key)
             reg_ex == <<gene>>
             genes_ == Findall(reg_ex, ignore_case, names)
         IN IF Len(genes_) = 1
            THEN KeyLoop(Tail(key), names, ignore_case, Append(acc, genes_[1]))
            ELSE [ok |-> FALSE, genes |-> acc]

NoGeneMsg == <<"Could not find any gene or protein to plot.">>

\* lines 151-218: the resolution of the key, then the check for no gene
PM_Resolve ==
    /\ fn = "plot_markers" /\ pc = "resolve"
    /\ LET branch == Branch(args.markers, args.protein, args.key)
           found(g, l) ==
               IF Len(g) = 0
               THEN Raise("ValueError", NoGeneMsg) /\ genes' = g /\ log' = l
               ELSE /\ pc' = "truncate" /\ genes' = g /\ log' = l
                    /\ UNCHANGED <<outcome, msg>>
       IN
       CASE branch = "var_names" ->
              found(Findall(args.key, VarNamesIgnoreCase(args.ignore_case), var_names),
                    Append(log, Ev("print", "Key not in the markers dict")))
         [] branch = "category" ->
              LET r == CategoryGenes(Value(args.markers)[args.key], var_names,
                                     args.ignore_case,
                                     [genes |-> <<>>, not_found |-> <<>>])
                  l == Append(log, Ev("print", "Key found in the markers dict"))
              IN found(r.genes,
                       IF Len(r.not_found) > 0
                       THEN Append(l, EvN("print", "Could not find the following genes",
                                          Len(r.not_found)))
                       ELSE l)
         [] branch = "no_markers" ->
              LET r == KeyLoop(args.key, var_names, args.ignore_case, <<>>)
                  l == Append(log, Ev("print", "No markers dict given"))
              IN IF r.ok THEN found(r.genes, l)
                 ELSE /\ Raise("TypeError", <<"append() takes exactly one argument">>)
                      /\ genes' = r.genes /\ log' = l
         [] branch = "protein" ->
              LET l == Append(log, Ev("print", "Looking for a protein with this name"))
              IN IF \/ args.prot_names_key \notin DOMAIN args.adata.uns
                    \/ args.prot_key \notin args.adata.obsm
                 THEN /\ Raise("ValueError",
                               <<"Requires a filed '", args.prot_names_key,
                                 "' in adata.uns and a field '", args.prot_key,
                                 "' in adata.obsm">>)
                      /\ genes' = genes /\ log' = l
                 ELSE found(Findall(args.key, args.ignore_case,
                                    args.adata.uns[args.prot_names_key]),
                            l \o <<Ev("read", "adata.obsm"), Ev("read", "adata.uns")>>)
    /\ UNCHANGED <<fn, args, cmVars, cdVars, var_names, use_raw, grid, panel, mgVars, drVars>>

\* genes = genes[:n_max] when len(genes) > n_max
TruncateLast(g, n_max) ==
    IF Len(g) > n_max THEN SubSeq(g, Len(g) - n_max + 1, Len(g)) ELSE g
Truncate(g, n_max) ==
    IF Len(g) > n_max THEN SubSeq(g, 1, n_max) ELSE g

\* lines 220-227
PM_Truncate ==
    /\ fn = "plot_markers" /\ pc = "truncate"
    /\ genes' = Truncate(genes, args.n_max)
    /\ log' = (IF Len(genes) > args.n_max
               THEN Append(log, EvN("print", "Found matches", Len(genes)))
               ELSE log)
              \o <<Ev("print", IF ~args.protein THEN "Plotting the following genes"
                               ELSE "Plotting the following proteins")>>
    /\ pc' = "grid"
    /\ UNCHANGED <<fn, args, outcome, msg, cmVars, cdVars, var_names, use_raw, grid, panel, mgVars, drVars>>

\* the least integer >= a / b
Ceil(a, b) == IF a % b = 0 THEN a \div b ELSE (a \div b) + 1

\* lines 229-239: n_row = int(np.ceil(n_genes+1/n_col)), where n_genes is whole
GridOf(n_genes, multi_line) ==
    IF multi_line
    THEN [n_row |-> n_genes + Ceil(1, GridCols), n_col |-> GridCols]
    ELSE [n_row |-> 1, n_col |-> n_genes + 1]

PM_Grid ==
    /\ fn = "plot_markers" /\ pc = "grid"
    /\ grid' = GridOf(Len(genes), args.multi_line)
    /\ panel' = 0
    /\ pc' = "plot"
    /\ UNCHANGED <<fn, args, outcome, msg, log, cmVars, cdVars, var_names, use_raw, genes, mgVars, drVars>>

\* lines 245-286: one pass of the plotting loop; gs[i] needs a cell i
PM_Panel ==
    /\ fn = "plot_markers" /\ pc = "plot" /\ panel < Len(genes) + 2
    /\ IF panel >= grid.n_row * grid.n_col
       THEN /\ Raise("IndexError", <<"GridSpec index out of range">>)
            /\ UNCHANGED <<log, panel>>
       ELSE /\ log' = Append(log, EvN("plot", "panel", panel))
            /\ panel' = panel + 1
            /\ UNCHANGED <<pc, outcome, msg>>
    /\ UNCHANGED <<fn, args, cmVars, cdVars, var_names, use_raw, genes, grid, mgVars, drVars>>

\* line 287
PM_Return ==
    /\ fn = "plot_markers" /\ pc = "plot" /\ panel = Len(genes) + 2
    /\ pc' = "done"
    /\ outcome' = "returned"
    /\ UNCHANGED <<fn, args, log, msg, cmVars, cdVars, pmVars, mgVars, drVars>>

NextPM ==
    \/ PM_CheckBasis
    \/ PM_VarNames
    \/ PM_Resolve
    \/ PM_Truncate
    \/ PM_Grid
    \/ PM_Panel
    \/ PM_Return

SpecPM == InitPM /\ [][NextPM]_vars

\* ------------------------------------------------- corr_ann, quant_batch
ObsKeys == {"n_counts", "batch", "louvain"}
\* adata as corr_ann and quant_batch use it: the embeddings and the obs keys
DiagAdatas ==
    [obsm : {{"X_pca", "X_umap"}}, obs : SUBSET ObsKeys]

\* the message without the key
NoSuchKeyMsgPlain(key) == <<"The key does not exist in adata.obs">>

\* lines 429, 472, 517, 519: the message, the key formatted into it
NoSuchKeyMsg(key) == <<"The key '", key, "' does not exist in adata.obs">>

InitCA ==
    /\ fn = "corr_ann"
    /\ pc = "start"
    /\ args \in [adata : DiagAdatas, obs_key : {"n_counts"},
                 basis : {"pca", "tsne"}, component : {0, 1}]
    /\ outcome = "running"
    /\ log = <<>>
    /\ msg = <<>>
    /\ matches = EmptyDict
    /\ gi = 0
    /\ PMIdle
    /\ CDIdle
    /\ MGIdle
    /\ DRIdle

\* lines 425-429
CA_Check ==
    /\ fn = "corr_ann" /\ pc = "start"
    /\ IF BasisCheck(args.adata, args.basis) = "ValueError"
       THEN Raise("ValueError", <<"You have not computd this basis yet">>)
       ELSE IF args.obs_key \notin args.adata.obs
       THEN Raise("ValueError", NoSuchKeyMsg(args.obs_key))
       ELSE pc' = "compute" /\ UNCHANGED <<outcome, msg>>
    /\ UNCHANGED <<fn, args, log, cmVars, cdVars, pmVars, mgVars, drVars>>

\* lines 431-441: np.corrcoef of the component and the annotation, printed
CA_Compute ==
    /\ fn = "corr_ann" /\ pc = "compute"
    /\ IF XKey(args.basis) \notin args.adata.obsm
       THEN Raise("KeyError", <<XKey(args.basis)>>)
            /\ log' = Append(log, Ev("read", "adata.obsm"))
       ELSE /\ log' = log \o <<Ev("read", "adata.obsm"), Ev("read", "adata.obs"),
                               Ev("print", "Correlation")>>
            /\ pc' = "done"
            /\ outcome' = "returned"
            /\ msg' = msg
    /\ UNCHANGED <<fn, args, cmVars, cdVars, pmVars, mgVars, drVars>>

InitQB ==
    /\ fn = "quant_batch"
    /\ pc = "start"
    /\ args \in [adata : DiagAdatas, key : {"batch"}, basis : {"pca", "tsne"}]
    /\ outcome = "running"
    /\ log = <<>>
    /\ msg = <<>>
    /\ matches = EmptyDict
    /\ gi = 0
    /\ PMIdle
    /\ CDIdle
    /\ MGIdle
    /\ DRIdle

\* lines 468-472
QB_Check ==
    /\ fn = "quant_batch" /\ pc = "start"
    /\ IF BasisCheck(args.adata, args.basis) = "ValueError"
       THEN Raise("ValueError", <<"You have not computd this basis yet">>)
       ELSE IF args.key \notin args.adata.obs
       THEN Raise("ValueError", NoSuchKeyMsg(args.key))
       ELSE pc' = "compute" /\ UNCHANGED <<outcome, msg>>
    /\ UNCHANGED <<fn, args, log, cmVars, cdVars, pmVars, mgVars, drVars>>

\* lines 474-483: silhouette_score of the first two components, printed
QB_Compute ==
    /\ fn = "quant_batch" /\ pc = "compute"
    /\ IF XKey(args.basis) \notin args.adata.obsm
       THEN Raise("KeyError", <<XKey(args.basis)>>)
            /\ log' = Append(log, Ev("read", "adata.obsm"))
       ELSE /\ log' = log \o <<Ev("read", "adata.obsm"), Ev("read", "adata.obs"),
                               Ev("print", "Silhouette coefficient")>>
            /\ pc' = "done"
            /\ outcome' = "returned"
            /\ msg' = msg
    /\ UNCHANGED <<fn, args, cmVars, cdVars, pmVars, mgVars, drVars>>

NextCA == CA_Check \/ CA_Compute
NextQB == QB_Check \/ QB_Compute

\* the three functions that take a basis
InitBasis == InitPM \/ InitCA \/ InitQB
NextBasis == NextPM \/ NextCA \/ NextQB
SpecBasis == InitBasis /\ [][NextBasis]_vars

\* --------------------------------------------------------- cluster_distr
\* most cells of adata
MaxCells == 4

\* the categories of adata.obs[cluster_key] and adata.obs[batch_key], in order
ClusterCats == <<"0", "1">>
BatchCats   == <<"a", "b", "c">>
SeqRange(q) == {q[i] : i \in 1..Len(q)}

\* the cells of adata: each has a cluster and a batch; a category may be
\* left without cells
CellSeqs ==
    UNION { [1..n -> [cluster : SeqRange(ClusterCats), batch : SeqRange(BatchCats)]]
            : n \in 1..MaxCells }

\* a float of the table: a number, or nan.  A percentage is held in
\* hundredths (0.33 is 33); kind "float" is a value that is not modelled.
Num(v)  == [kind |-> "num", v |-> v]
NaN     == [kind |-> "nan", v |-> 0]
Unknown == [kind |-> "float", v |-> 0]

\* np.round(c / n, 2) in hundredths: 0 / 0 is nan, a tie goes to the even
\* neighbour
Round2Up(c, n) ==
    IF n = 0 THEN NaN
    ELSE Num(((100 * c) \div n) + 1)
Round2(c, n) ==
    IF n = 0 THEN NaN
    ELSE LET q == (100 * c) \div n
             r == (100 * c) % n
         IN IF 2 * r < n THEN Num(q)
            ELSE IF 2 * r > n THEN Num(q + 1)
            ELSE IF q % 2 = 0 THEN Num(q) ELSE Num(q + 1)

PercCol(batch) == "perc_" \o batch

InitCD ==
    /\ fn = "cluster_distr"
    /\ pc = "start"
    /\ args \in [adata : [obs : SUBSET {"louvain", "batch"}, cells : CellSeqs],
                 cluster_key : {"louvain"}, batch_key : {"batch"}]
    /\ outcome = "running"
    /\ log = <<>>
    /\ msg = <<>>
    /\ matches = EmptyDict
    /\ gi = 0
    /\ PMIdle
    /\ CDIdle
    /\ MGIdle
    /\ DRIdle

\* lines 515-519
CD_Check ==
    /\ fn = "cluster_distr" /\ pc = "start"
    /\ IF args.cluster_key \notin args.adata.obs
       THEN Raise("ValueError", NoSuchKeyMsg(args.cluster_key))
       ELSE IF args.batch_key \notin args.adata.obs
       THEN Raise("ValueError", NoSuchKeyMsg(args.batch_key))
       ELSE pc' = "totals" /\ UNCHANGED <<outcome, msg>>
    /\ UNCHANGED <<fn, args, log, cmVars, pmVars, cdVars, mgVars, drVars>>

\* cells_per_cluster of line 529
CellsPerCluster(cells, cluster) ==
    Len(SelectSeq(cells, LAMBDA cell : cell.cluster = cluster))
\* lines 534-535: the cells of one batch, counted per cluster
CellsPerClusterBatch(cells, cluster, batch) ==
    LET assignment == SelectSeq(cells, LAMBDA cell : cell.batch = batch)
    IN Len(SelectSeq(assignment, LAMBDA cell : cell.cluster = cluster))

\* lines 521-530: the empty table and its column 'total number'
CD_Totals ==
    /\ fn = "cluster_distr" /\ pc = "totals"
    /\ batch_distr' =
          [cluster \in SeqRange(ClusterCats) |->
              [col \in {PercCol(b) : b \in SeqRange(BatchCats)} \cup {"total number"} |->
                  IF col = "total number"
                  THEN Num(CellsPerCluster(args.adata.cells, cluster))
                  ELSE NaN]]
    /\ bi' = 1
    /\ pc' = "batches"
    /\ log' = Append(log, Ev("read", "adata.obs"))
    /\ UNCHANGED <<fn, args, outcome, msg, cmVars, pmVars, mgVars, drVars>>

\* lines 533-538: one pass of the loop over the batches
CD_Batch ==
    /\ fn = "cluster_distr" /\ pc = "batches" /\ bi <= Len(BatchCats)
    /\ LET batch == BatchCats[bi] IN
       batch_distr' =
          [cluster \in DOMAIN batch_distr |->
              [batch_distr[cluster] EXCEPT ![PercCol(batch)] =
                  Round2(CellsPerClusterBatch(args.adata.cells, cluster, batch),
                         CellsPerCluster(args.adata.cells, cluster))]]
    /\ bi' = bi + 1
    /\ log' = Append(log, Ev("read", "adata.obs"))
    /\ UNCHANGED <<fn, pc, args, outcome, msg, cmVars, pmVars, mgVars, drVars>>

\* lines 540-553: the entropy of each row (scipy.stats.entropy, whose value
\* is not modelled), the warning for each row at or below eps, the return
CD_Entropy ==
    /\ fn = "cluster_distr" /\ pc = "batches" /\ bi > Len(BatchCats)
    /\ \E warned \in SUBSET SeqRange(ClusterCats) :
          log' = log \o SelectSeq(
                    [k \in 1..Len(ClusterCats) |->
                        [op |-> "print", what |-> "Warning: uneven batch assignment",
                         n |-> k]],
                    LAMBDA e : ClusterCats[e.n] \in warned)
    /\ batch_distr' =
          [cluster \in DOMAIN batch_distr |->
              [col \in DOMAIN batch_distr[cluster] \cup {"entropy"} |->
                  IF col = "entropy" THEN Unknown ELSE batch_distr[cluster][col]]]
    /\ pc' = "done"
    /\ outcome' = "returned"
    /\ UNCHANGED <<fn, args, msg, cmVars, pmVars, bi, mgVars, drVars>>

NextCD == CD_Check \/ CD_Totals \/ CD_Batch \/ CD_Entropy
SpecCD == InitCD /\ [][NextCD]_vars

\* ------------------------------------------------------------ map_to_mgi
\* One call of map_to_mgi(adata).  The biomart server and what it answers
\* are outside the program: args.biomart is the table the query would
\* return, rows of ('Gene stable ID', 'Gene name'), a missing name being None.
MaxRows == 3
MaxFeatures == 2

ENSMUSG1 == "ENSMUSG1"
ENSMUSG2 == "ENSMUSG2"
ENSMUSG3 == "ENSMUSG3"
GeneIDs == {ENSMUSG1, ENSMUSG2, ENSMUSG3}
GeneNames == {"Cd3e", "Foxp3"}

SeqsOf(S, lo, hi) == UNION {[1..n -> S] : n \in lo..hi}

ConvRows == [gene_id : GeneIDs, gene_name : {None} \cup {Some(s) : s \in GeneNames}]
ConvTables == SeqsOf(ConvRows, 0, MaxRows)

InitMG ==
    /\ fn = "map_to_mgi"
    /\ pc = "start"
    /\ args \in [adata : [var_names : SeqsOf(GeneIDs, 1, MaxFeatures)],
                 biomart : ConvTables]
    /\ outcome = "running"
    /\ log = <<>>
    /\ msg = <<>>
    /\ matches = EmptyDict
    /\ gi = 0
    /\ PMIdle
    /\ CDIdle
    /\ MGIdle
    /\ DRIdle

\* lines 299-306: the query is answered, or the network call fails and the
\* error propagates
MG_Query ==
    /\ fn = "map_to_mgi" /\ pc = "start"
    /\ \/ /\ conv_table' = args.biomart
          /\ pc' = "dedup"
          /\ UNCHANGED <<outcome, msg>>
       \/ /\ Raise("ConnectionError", <<"biomart">>)
          /\ UNCHANGED conv_table
    /\ UNCHANGED <<fn, args, log, cmVars, pmVars, cdVars, mapping, mgi_symbols, drVars>>

\* the rows of tbl whose identifier is id, in the order of tbl
RowsOf(tbl, id) == SelectSeq(tbl, LAMBDA r : r.gene_id = id)

\* DataFrame.drop_duplicates(column, keep='last')
DropDuplicatesLast(tbl) ==
    LET Keep(i) == \A j \in (i + 1)..Len(tbl) : tbl[j].gene_id # tbl[i].gene_id
        F[i \in 0..Len(tbl)] ==
            IF i = 0 THEN <<>>
            ELSE IF Keep(i) THEN Append(F[i - 1], tbl[i]) ELSE F[i - 1]
    IN F[Len(tbl)]

\* line 309: DataFrame.drop_duplicates(column) keeps the first row of every
\* identifier
DropDuplicates(tbl) ==
    LET Keep(i) == \A j \in 1..(i - 1) : tbl[j].gene_id # tbl[i].gene_id
        F[i \in 0..Len(tbl)] ==
            IF i = 0 THEN <<>>
            ELSE IF Keep(i) THEN Append(F[i - 1], tbl[i]) ELSE F[i - 1]
    IN F[Len(tbl)]

MG_Dedup ==
    /\ fn = "map_to_mgi" /\ pc = "dedup"
    /\ conv_table' = DropDuplicates(conv_table)
    /\ pc' = "join"
    /\ UNCHANGED <<fn, args, outcome, log, msg, cmVars, pmVars, cdVars,
                   mapping, mgi_symbols, drVars>>

\* line 322: DataFrame.join(other, on=column) is a left join: every left row
\* once per right row with its identifier, once with a missing name when
\* there is none
Join(names, tbl) ==
    LET F[i \in 0..Len(names)] ==
            IF i = 0 THEN <<>>
            ELSE IF RowsOf(tbl, names[i]) = <<>>
                 THEN Append(F[i - 1], [gene_id |-> names[i], gene_name |-> None])
                 ELSE F[i - 1] \o RowsOf(tbl, names[i])
    IN F[Len(names)]

\* lines 312-322
MG_Join ==
    /\ fn = "map_to_mgi" /\ pc = "join"
    /\ mapping' = Join(args.adata.var_names, conv_table)
    /\ pc' = "report"
    /\ UNCHANGED <<fn, args, outcome, log, msg, cmVars, pmVars, cdVars,
                   conv_table, mgi_symbols, drVars>>

\* lines 325-328: the counts that are printed
NotFoundMgi(m) == Cardinality({i \in 1..Len(m) : m[i].gene_name = None})
RepEnsg(m) == Len(m) - Cardinality({m[i].gene_id : i \in 1..Len(m)})
RepMgi(m) == Len(m) - Cardinality({m[i].gene_name : i \in 1..Len(m)})

\* lines 325-335
MG_Report ==
    /\ fn = "map_to_mgi" /\ pc = "report"
    /\ log' = log \o <<EvN("print", "Genes where no MGI annotations where found",
                           NotFoundMgi(mapping)),
                       EvN("print", "ENSG repetition", RepEnsg(mapping)),
                       EvN("print", "MGI repetition", RepMgi(mapping))>>
    /\ pc' = "fill"
    /\ UNCHANGED <<fn, args, outcome, msg, cmVars, pmVars, cdVars, mgVars, drVars>>

\* line 338: Series.fillna(other) takes the entry of other where the name is
\* missing; line 341: tolist()
Fillna(m) ==
    [i \in 1..Len(m) |->
        IF m[i].gene_name = None THEN Some(m[i].gene_id) ELSE m[i].gene_name]

\* lines 338-341: a column of another length than adata.var is refused
MG_Fill ==
    /\ fn = "map_to_mgi" /\ pc = "fill"
    /\ IF Len(mapping) # Len(args.adata.var_names)
       THEN /\ Raise("ValueError", <<"Length of values does not match length of index">>)
            /\ UNCHANGED mgi_symbols
       ELSE /\ mgi_symbols' = Fillna(mapping)
            /\ pc' = "done"
            /\ outcome' = "returned"
            /\ UNCHANGED msg
    /\ UNCHANGED <<fn, args, log, cmVars, pmVars, cdVars, conv_table, mapping, drVars>>

NextMG == MG_Query \/ MG_Dedup \/ MG_Join \/ MG_Report \/ MG_Fill
SpecMG == InitMG /\ [][NextMG]_vars

\* ------------------------------------------------------------ de_results
\* One call of de_results(adata, keys, cluster_key, n_genes).  Column names
\* are built from strings, so groups and keys are sequences of characters.
MaxHead == 2
KeyChars == 10

k_names == <<"n", "a", "m", "e", "s">>
k_scores == <<"s", "c", "o", "r", "e", "s">>
k_logfoldchanges ==
    <<"l", "o", "g", "f", "o", "l", "d", "c", "h", "a", "n", "g", "e", "s">>
k_pvals == <<"p", "v", "a", "l", "s">>

\* result['names'].dtype.names
DRGroups == << <<"0">>, <<"1">> >>
DRNameCols == {<<Cd3e, Foxp3>>, <<Foxp3, Cd3e>>}

\* adata.uns['rank_genes_groups']: per key, per group, a column
RankResults ==
    {  (k_names :> (DRGroups[1] :> a @@ DRGroups[2] :> b))
    @@ (k_scores :> (DRGroups[1] :> <<2, 1>> @@ DRGroups[2] :> <<3, 1>>))
    @@ (k_logfoldchanges :> (DRGroups[1] :> <<1, 0>> @@ DRGroups[2] :> <<2, 0>>))
       : a \in DRNameCols, b \in DRNameCols }

DRKeyLists ==
    {<<k_names, k_scores>>, <<k_names>>, <<k_logfoldchanges, k_names>>,
     <<k_names, k_pvals>>}

InitDR ==
    /\ fn = "de_results"
    /\ pc = "start"
    /\ args \in [adata : [obs : SUBSET {"louvain"},
                          uns : {None} \cup {Some(r) : r \in RankResults}],
                 keys : DRKeyLists,
                 cluster_key : {"louvain"},
                 n_genes : 0..MaxHead]
    /\ outcome = "running"
    /\ log = <<>>
    /\ msg = <<>>
    /\ matches = EmptyDict
    /\ gi = 0
    /\ PMIdle
    /\ CDIdle
    /\ MGIdle
    /\ DRIdle

CouldNotFindMsg(key) == <<"Could not find the key '", key, "' in adata.obs">>

\* lines 578-581
DR_Check ==
    /\ fn = "de_results" /\ pc = "start"
    /\ IF args.cluster_key \notin args.adata.obs
       THEN Raise("ValueError", CouldNotFindMsg(args.cluster_key))
       ELSE IF args.adata.uns = None
       THEN Raise("ValueError", <<"Run the differential expression test first.">>)
       ELSE pc' = "table" /\ UNCHANGED <<outcome, msg>>
    /\ UNCHANGED <<fn, args, log, cmVars, pmVars, cdVars, mgVars, drVars>>

\* key[:10]
Take(str, n) == SubSeq(str, 1, IF Len(str) < n THEN Len(str) ELSE n)

\* group + '_' + key[:10]
ColName(group, key) == group \o <<"_">> \o Take(key, KeyChars)

\* DataFrame.head(n) of one column, n >= 0
HeadRows(col, n) == SubSeq(col, 1, IF Len(col) < n THEN Len(col) ELSE n)

\* lines 588-589: the (group, key) pairs in the order the comprehension
\* visits them
DRPairs(groups, keys) ==
    [i \in 1..(Len(groups) * Len(keys)) |->
        [group |-> groups[((i - 1) \div Len(keys)) + 1],
         key |-> keys[((i - 1) % Len(keys)) + 1]]]

\* lines 588-590: a later pair with the same column name replaces the earlier
TableOf(result, groups, keys, n) ==
    LET pairs == DRPairs(groups, keys)
        F[i \in 0..Len(pairs)] ==
            IF i = 0 THEN EmptyDict
            ELSE (ColName(pairs[i].group, pairs[i].key)
                     :> HeadRows(result[pairs[i].key][pairs[i].group], n)) @@ F[i - 1]
    IN F[Len(pairs)]

\* lines 584-592: a key that the result does not hold is a KeyError of the
\* first lookup
DR_Table ==
    /\ fn = "de_results" /\ pc = "table"
    /\ LET result == Value(args.adata.uns)
           missing == {i \in 1..Len(args.keys) : args.keys[i] \notin DOMAIN result}
       IN IF missing # {}
          THEN /\ Raise("KeyError",
                        <<args.keys[CHOOSE i \in missing : \A j \in missing : i <= j]>>)
               /\ UNCHANGED table
          ELSE /\ table' = TableOf(result, DRGroups, args.keys, args.n_genes)
               /\ pc' = "done"
               /\ outcome' = "returned"
               /\ UNCHANGED msg
    /\ UNCHANGED <<fn, args, log, cmVars, pmVars, cdVars, mgVars>>

NextDR == DR_Check \/ DR_Table

\* the four functions that check their keys: corr_ann, quant_batch,
\* cluster_distr, de_results
InitDiag == InitCA \/ InitQB \/ InitCD \/ InitDR
NextDiag == NextCA \/ NextQB \/ NextCD \/ NextDR
SpecDiag == InitDiag /\ [][NextDiag]_vars

\* ------------------------------------------------ properties: check_markers
\* pattern p matches the whole of name g with letter case ignored, stated
\* position by position ("." stands for any one character)
FullMatchCI(p, g) ==
    /\ Len(p) = Len(g)
    /\ \A i \in 1..Len(p) : p[i] = "." \/ Lower(p[i]) = Lower(g[i])
IsLiteral(p) == \A i \in 1..Len(p) : p[i] # "."
LowerStr(s) == [i \in 1..Len(s) |-> Lower(s[i])]
IsStrictPrefix(p, g) == Len(p) < Len(g) /\ \A i \in 1..Len(p) : p[i] = g[i]
ColumnOf(group) == args.de_genes[group]
PatternsOf(cat) == args.marker_genes[cat]
SomeMatch(p, col) == \E i \in 1..Len(col) : FullMatchCI(p, col[i])
CategoryMatches(cat, col) ==
    \E k \in 1..Len(PatternsOf(cat)) : SomeMatch(PatternsOf(cat)[k], col)
ListOf(group, cat) ==
    IF cat \in DOMAIN matches[group] THEN matches[group][cat] ELSE <<>>

\* C1: a category none of whose patterns matches a DE gene of the cluster is
\* not a key of matches[cluster], and every key of matches[cluster] maps to
\* a non-empty list.
C1_AbsentWhenNoMatch ==
    \A group \in DOMAIN matches :
        /\ \A cat \in DOMAIN args.marker_genes :
               ~CategoryMatches(cat, ColumnOf(group)) => cat \notin DOMAIN matches[group]
        /\ \A cat \in DOMAIN matches[group] : matches[group][cat] # <<>>

C1_Witness ==
    /\ pc = "done"
    /\ \E group \in DOMAIN matches :
         \E c1, c2 \in DOMAIN args.marker_genes :
            /\ PatternsOf(c1) # <<>>
            /\ ~CategoryMatches(c1, ColumnOf(group))
            /\ c1 \notin DOMAIN matches[group]
            /\ c2 \in DOMAIN matches[group]

\* C2: a gene is listed under a category only if some pattern of the category
\* matches its whole name with case ignored (for a literal pattern the
\* lower-cased strings are equal, so a strict prefix never matches), and a
\* literal pattern that differs from a DE gene only in case does match.
C2_WholeNameIgnoreCase ==
    \A group \in DOMAIN matches :
        /\ \A cat \in DOMAIN matches[group] :
             \A i \in 1..Len(matches[group][cat]) :
                LET g == matches[group][cat][i] IN
                /\ \E j \in 1..Len(ColumnOf(group)) : ColumnOf(group)[j] = g
                /\ \E k \in 1..Len(PatternsOf(cat)) :
                      LET p == PatternsOf(cat)[k] IN
                      /\ FullMatchCI(p, g)
                      /\ IsLiteral(p) => LowerStr(g) = LowerStr(p)
                      /\ ~IsStrictPrefix(p, g)
        /\ \A cat \in DOMAIN args.marker_genes :
             \A k \in 1..Len(PatternsOf(cat)) :
                LET p == PatternsOf(cat)[k] IN
                (IsLiteral(p) /\ \E j \in 1..Len(ColumnOf(group)) :
                                    LowerStr(ColumnOf(group)[j]) = LowerStr(p))
                => \E i \in 1..Len(ListOf(group, cat)) :
                      LowerStr(ListOf(group, cat)[i]) = LowerStr(p)

C2_Witness ==
    /\ pc = "done"
    /\ \E group \in DOMAIN matches :
         \E c1, c2 \in DOMAIN args.marker_genes :
            \* the prefix "Cd3" alone does not match the gene "Cd3e"
            /\ PatternsOf(c1) = <<p_Cd3>>
            /\ ColumnOf(group)[1] = Cd3e
            /\ c1 \notin DOMAIN matches[group]
            \* the pattern "cd3e" matches the gene "Cd3e"
            /\ PatternsOf(c2) = <<p_cd3e>>
            /\ ListOf(group, c2) = <<Cd3e>>

\* C3: per cluster and category each pattern contributes at most one gene,
\* the first of the cluster's column that it matches; the list follows the
\* order of the patterns and is as long as the number of patterns that
\* match something; a pattern without a match is skipped.
HitPatterns(pats, col) == {k \in 1..Len(pats) : SomeMatch(pats[k], col)}
FirstIndex(p, col) ==
    CHOOSE i \in 1..Len(col) :
        FullMatchCI(p, col[i]) /\ \A j \in 1..(i - 1) : ~FullMatchCI(p, col[j])

C3_FirstGenePerPattern ==
    \A group \in DOMAIN matches :
      \A cat \in DOMAIN args.marker_genes :
        LET pats == PatternsOf(cat)
            col  == ColumnOf(group)
            hits == HitPatterns(pats, col)
            lst  == ListOf(group, cat)
        IN /\ Len(lst) = Cardinality(hits)
           /\ \A k \in hits :
                lst[Cardinality({h \in hits : h <= k})] = col[FirstIndex(pats[k], col)]

C3_Witness ==
    /\ pc = "done"
    /\ \E group \in DOMAIN matches :
         \E cat \in DOMAIN matches[group] :
            \* "Cd3" is skipped; "Cd3." matches both genes and yields the first
            /\ PatternsOf(cat) = <<p_Cd3, p_Cd3x>>
            /\ ColumnOf(group) = <<CD3E, Cd3e>>
            /\ matches[group][cat] = <<CD3E>>
    /\ \E group \in DOMAIN matches :
         \E cat \in DOMAIN matches[group] :
            /\ PatternsOf(cat) = <<Foxp3, p_cd3e>>
            /\ matches[group][cat] = <<Foxp3, Cd3e>>

\* C4 as claimed: a cluster none of whose DE genes matches any pattern is
\* not a key of the returned dict.
NoMatchAtAll(group) ==
    \A cat \in DOMAIN args.marker_genes : ~CategoryMatches(cat, ColumnOf(group))
AllClusters == {Clusters[i] : i \in 1..Len(Clusters)}

C4_Original ==
    pc = "done" =>
        \A group \in AllClusters : NoMatchAtAll(group) => group \notin DOMAIN matches

\* C4 as amended: every cluster of the DE table is a key of the returned
\* dict; a cluster none of whose DE genes matches any pattern maps to an
\* empty dict.
C4_ClusterKeptEmpty ==
    pc = "done" =>
        /\ DOMAIN matches = AllClusters
        /\ \A group \in AllClusters :
              NoMatchAtAll(group) => DOMAIN matches[group] = {}

C4_Witness ==
    /\ pc = "done"
    /\ \E g1, g2 \in AllClusters :
         /\ NoMatchAtAll(g1)
         /\ g1 \in DOMAIN matches /\ DOMAIN matches[g1] = {}
         /\ g2 \in DOMAIN matches /\ DOMAIN matches[g2] # {}

\* ------------------------------------------------- properties: plot_markers
CharEq(a, b, icase) == IF icase THEN Lower(a) = Lower(b) ELSE a = b
\* pattern p matches the whole of name g
FullMatchWith(p, g, icase) ==
    /\ Len(p) = Len(g)
    /\ \A i \in 1..Len(p) : p[i] = "." \/ CharEq(g[i], p[i], icase)
\* pattern p matches some stretch of name g
SubMatchWith(p, g, icase) ==
    \E off \in 0..(Len(g) - Len(p)) :
        \A i \in 1..Len(p) : p[i] = "." \/ CharEq(g[off + i], p[i], icase)

Printed(what) ==
    \E i \in 1..Len(log) : log[i].op = "print" /\ log[i].what = what
BasisPresent == XKey(args.basis) \in args.adata.obsm
\* plot_markers has finished resolving the key (or failed doing so)
PMResolved ==
    fn = "plot_markers" /\ BasisPresent /\ pc \notin {"start", "names", "resolve"}
IsCategoryKey == args.markers # None /\ args.key \in DOMAIN Value(args.markers)
TookCategory == Printed("Key found in the markers dict")
TookProtein  == Printed("Looking for a protein with this name")
TookFreeText ==
    Printed("Key not in the markers dict") \/ Printed("No markers dict given")

\* C5: the list that is plotted is at most n_max long: a resolved list
\* longer than n_max is cut to its first n_max names, a shorter one is
\* kept, and the plotting steps leave the list alone.
C5_TruncatedToNMax ==
    [][ /\ (fn = "plot_markers" /\ pc = "truncate" /\ pc' # "truncate") =>
              /\ Len(genes') <= args.n_max
              /\ IF Len(genes) > args.n_max
                 THEN /\ Len(genes') = args.n_max
                      /\ \A i \in 1..args.n_max : genes'[i] = genes[i]
                 ELSE genes' = genes
        /\ (fn = "plot_markers" /\ pc \in {"grid", "plot"}) =>
              /\ genes' = genes
              /\ Len(genes) <= args.n_max
      ]_vars

C5_Witness ==
    /\ fn = "plot_markers" /\ pc = "plot"
    /\ TookCategory
    /\ Len(genes) = args.n_max
    /\ \E i \in 1..Len(log) :
          log[i].what = "Found matches" /\ log[i].n > args.n_max
    /\ genes = <<Foxp3>>

\* C7 as claimed: with the basis present, a resolution that finds no feature
\* name ends in a ValueError, in every branch.
NoFeatureMatches ==
    IF args.protein
    THEN \A i \in 1..Len(ProteinNames) :
            args.prot_names_key \in DOMAIN args.adata.uns
            => ~SubMatchWith(args.key, args.adata.uns[args.prot_names_key][i], TRUE)
    ELSE IF IsCategoryKey
    THEN \A k \in 1..Len(Value(args.markers)[args.key]) :
            \A i \in 1..Len(var_names) :
                ~FullMatchWith(Value(args.markers)[args.key][k], var_names[i], TRUE)
    ELSE \A i \in 1..Len(var_names) : ~SubMatchWith(args.key, var_names[i], TRUE)

C7_ZeroMatchValueError ==
    (PMResolved /\ NoFeatureMatches) => outcome = "ValueError"

\* C8 as claimed: a key that is a category label of the markers dict is
\* resolved through that category for either value of protein; the protein
\* interpretation applies only otherwise.
C8_Original ==
    PMResolved =>
        /\ IsCategoryKey => TookCategory
        /\ TookProtein => (~IsCategoryKey /\ args.protein)
        /\ TookFreeText => (~IsCategoryKey /\ ~args.protein)

\* C8 as amended: the protein flag is looked at first.  With protein set the
\* key is taken as a protein name pattern, whether or not it is a category
\* label; with protein unset, a key that is a category label of a supplied
\* markers dict yields, per pattern of the category in order, the first
\* feature the pattern matches as a whole (at most one per pattern); with
\* protein unset and no such label the free-text interpretation is used.
CatPatterns == Value(args.markers)[args.key]
CatHits ==
    {k \in 1..Len(CatPatterns) :
        \E i \in 1..Len(var_names) :
            FullMatchWith(CatPatterns[k], var_names[i], args.ignore_case)}
CatFirst(k) ==
    CHOOSE i \in 1..Len(var_names) :
        /\ FullMatchWith(CatPatterns[k], var_names[i], args.ignore_case)
        /\ \A j \in 1..(i - 1) :
              ~FullMatchWith(CatPatterns[k], var_names[j], args.ignore_case)

C8_ProteinFlagFirst ==
    PMResolved =>
        /\ TookCategory <=> (IsCategoryKey /\ ~args.protein)
        /\ TookProtein <=> args.protein
        /\ TookFreeText <=> (~IsCategoryKey /\ ~args.protein)
        /\ TookCategory =>
              /\ (pc = "raised" /\ outcome = "ValueError") => CatHits = {}
              /\ pc = "truncate" =>
                    /\ Len(genes) = Cardinality(CatHits)
                    /\ Len(genes) <= Len(CatPatterns)
                    /\ \A k \in CatHits :
                          genes[Cardinality({h \in CatHits : h <= k})]
                              = var_names[CatFirst(k)]

C8_Witness ==
    /\ PMResolved /\ pc = "truncate"
    /\ IsCategoryKey /\ args.protein
    /\ CatPatterns = <<Foxp3>>
    /\ TookProtein
    /\ genes = <<CD3E, CD3>>

\* C9 as claimed: with protein unset and the key not resolved as a category,
\* the resolved list is all feature names, in var_names order, that the key
\* as one regular expression matches, case ignored iff ignore_case.
FreeTextExpected ==
    SelectSeq(var_names, LAMBDA l : SubMatchWith(args.key, l, args.ignore_case))

C9_FreeTextAllMatches ==
    (PMResolved /\ ~args.protein /\ ~IsCategoryKey) =>
        IF FreeTextExpected = <<>>
        THEN outcome = "ValueError"
        ELSE /\ outcome \notin {"ValueError", "TypeError"}
             /\ pc = "truncate" => genes = FreeTextExpected

\* ------------------------------------------- properties: the basis check
\* C6: with 'X_' + basis absent from adata.obsm, plot_markers, corr_ann and
\* quant_batch raise the ValueError of the basis check as their first step:
\* nothing of adata has been read and nothing printed, whatever the other
\* arguments are.
C6_BasisCheckedFirst ==
    (/\ fn \in {"plot_markers", "corr_ann", "quant_batch"}
     /\ XKey(args.basis) \notin args.adata.obsm
     /\ pc # "start")
    => /\ pc = "raised"
       /\ outcome = "ValueError"
       /\ msg[1] \in {"You have not computed the basis ",
                      "You have not computd this basis yet"}
       /\ log = <<>>

C6_Witness ==
    /\ fn = "corr_ann"
    /\ args.basis = "tsne"
    /\ args.obs_key \notin args.adata.obs
    /\ pc = "raised"
    /\ outcome = "ValueError"

\* ------------------------------------------------ properties: cluster_distr
ClusterCount(cluster) ==
    Cardinality({i \in 1..Len(args.adata.cells) : args.adata.cells[i].cluster = cluster})
ClusterBatchCount(cluster, batch) ==
    Cardinality({i \in 1..Len(args.adata.cells) :
                    /\ args.adata.cells[i].cluster = cluster
                    /\ args.adata.cells[i].batch = batch})
Abs(x) == IF x < 0 THEN -x ELSE x
RECURSIVE SumPerc(_, _)
SumPerc(row, batches) ==
    IF batches = {} THEN 0
    ELSE LET b == CHOOSE x \in batches : TRUE
         IN row[PercCol(b)].v + SumPerc(row, batches \ {b})

\* the row of one cluster is as C10 says: every perc_<batch> is a number
\* within 0.005 of count(cluster and batch) / count(cluster), the row sums
\* to 1.0 within 0.005 per batch, and 'total number' is the cell count
RowAsClaimed(cluster) ==
    LET row == batch_distr[cluster]
        n   == ClusterCount(cluster)
    IN /\ row["total number"] = Num(n)
       /\ \A b \in SeqRange(BatchCats) :
             /\ row[PercCol(b)].kind = "num"
             /\ 2 * Abs(row[PercCol(b)].v * n - 100 * ClusterBatchCount(cluster, b)) <= n
       /\ 2 * Abs(SumPerc(row, SeqRange(BatchCats)) - 100) <= Len(BatchCats)

\* C10 as claimed: every cluster category has such a row in the table
\* returned.
C10_Original ==
    (fn = "cluster_distr" /\ pc = "done") =>
        \A cluster \in SeqRange(ClusterCats) : RowAsClaimed(cluster)

\* C10 as amended: every cluster category with at least one cell has such a
\* row; 'total number' is the cell count for every cluster category, and a
\* category without cells has nan in every perc_<batch> column.
C10_NonEmptyClusters ==
    (fn = "cluster_distr" /\ pc = "done") =>
        \A cluster \in SeqRange(ClusterCats) :
            /\ batch_distr[cluster]["total number"] = Num(ClusterCount(cluster))
            /\ ClusterCount(cluster) > 0 => RowAsClaimed(cluster)
            /\ ClusterCount(cluster) = 0 =>
                  \A b \in SeqRange(BatchCats) : batch_distr[cluster][PercCol(b)] = NaN

C10_Witness ==
    /\ fn = "cluster_distr" /\ pc = "done"
    /\ ClusterCount("0") = 3
    /\ \A b \in SeqRange(BatchCats) : batch_distr["0"][PercCol(b)] = Num(33)
    /\ batch_distr["1"]["perc_a"] = Num(100)

\* --------------------------------------------------- properties: map_to_mgi
MGNames == args.adata.var_names

\* the symbol the conversion table gives id: the name of the first row of the
\* table as the server sent it with this identifier, None without such a row
FirstSymbol(id) ==
    IF RowsOf(args.biomart, id) = <<>> THEN None
    ELSE RowsOf(args.biomart, id)[1].gene_name

\* C11: the joined table has one row per feature of adata.var_names in their
\* order, whatever identifiers the conversion table repeats, so the column is
\* never refused for its length; after the call mgi_symbols has one entry per
\* feature, none missing: the name of the first conversion-table row with the
\* feature's identifier when that name is not missing, else the identifier.
C11_SymbolPerFeature ==
    fn = "map_to_mgi" =>
        /\ outcome # "ValueError"
        /\ pc \in {"report", "fill", "done"} =>
              /\ Len(mapping) = Len(MGNames)
              /\ \A i \in 1..Len(mapping) : mapping[i].gene_id = MGNames[i]
        /\ outcome = "returned" =>
              /\ Len(mgi_symbols) = Len(MGNames)
              /\ \A i \in 1..Len(mgi_symbols) :
                    /\ mgi_symbols[i] # None
                    /\ mgi_symbols[i] =
                          IF FirstSymbol(MGNames[i]) # None
                          THEN FirstSymbol(MGNames[i])
                          ELSE Some(MGNames[i])

\* a returned call whose conversion table repeats the identifier of the first
\* feature with two names and has no name for the second feature
C11_Witness ==
    /\ fn = "map_to_mgi" /\ outcome = "returned"
    /\ MGNames = <<ENSMUSG1, ENSMUSG2>>
    /\ args.biomart = <<[gene_id |-> ENSMUSG1, gene_name |-> Some("Cd3e")],
                        [gene_id |-> ENSMUSG1, gene_name |-> Some("Foxp3")],
                        [gene_id |-> ENSMUSG2, gene_name |-> None]>>
    /\ mgi_symbols = <<Some("Cd3e"), Some(ENSMUSG2)>>

\* ------------------------------------- properties: the missing-key failures
HasBasis == fn \in {"corr_ann", "quant_batch"}
BasisMissing == HasBasis /\ XKey(args.basis) \notin args.adata.obsm

\* the obs keys a function requires, in the order it checks them
ObsKeysOf ==
    IF fn = "corr_ann" THEN <<args.obs_key>>
    ELSE IF fn = "quant_batch" THEN <<args.key>>
    ELSE IF fn = "cluster_distr" THEN <<args.cluster_key, args.batch_key>>
    ELSE <<args.cluster_key>>

MissingObsKeys == {i \in 1..Len(ObsKeysOf) : ObsKeysOf[i] \notin args.adata.obs}

\* the key whose absence the function meets first
Offending ==
    IF BasisMissing THEN args.basis
    ELSE ObsKeysOf[CHOOSE i \in MissingObsKeys : \A j \in MissingObsKeys : i <= j]

\* the message has the key as one of the parts it is formatted from
Names(message, key) == \E i \in 1..Len(message) : message[i] = key

\* nothing was read, computed, printed or returned
NothingDone ==
    /\ log = <<>>
    /\ batch_distr = EmptyDict
    /\ table = EmptyDict
    /\ outcome # "returned"

\* C12 as stated: a call of corr_ann, quant_batch, cluster_distr or
\* de_results that lacks its basis or an obs key fails in its first step with
\* nothing computed, printed or returned, and the message of the ValueError
\* names the offending key, the basis as well as the obs key.
C12_Original ==
    (fn \in {"corr_ann", "quant_batch", "cluster_distr", "de_results"}
        /\ (BasisMissing \/ MissingObsKeys # {})) =>
        /\ pc \in {"start", "raised"}
        /\ NothingDone
        /\ pc = "raised" => (outcome = "ValueError" /\ Names(msg, Offending))

\* C12 amended: such a call fails in its first step with nothing computed,
\* printed or returned; the message names the offending obs key, while the
\* message for a missing basis is one fixed text that does not name the basis.
C12_ObsKeyNamed ==
    (fn \in {"corr_ann", "quant_batch", "cluster_distr", "de_results"}
        /\ (BasisMissing \/ MissingObsKeys # {})) =>
        /\ pc \in {"start", "raised"}
        /\ NothingDone
        /\ pc = "raised" =>
              /\ outcome = "ValueError"
              /\ IF BasisMissing
                 THEN /\ msg = <<"You have not computd this basis yet">>
                      /\ ~Names(msg, args.basis)
                 ELSE Names(msg, Offending)

\* cluster_distr has failed on its second key, the batch key, and names it
C12_Witness ==
    /\ fn = "cluster_distr" /\ pc = "raised" /\ outcome = "ValueError"
    /\ args.cluster_key \in args.adata.obs
    /\ args.batch_key \notin args.adata.obs
    /\ Names(msg, args.batch_key)
    /\ NothingDone

\* ------------------------------------------ properties: the grid of panels
\* C13: once plot_markers has created the grid for one or more resolved
\* genes, with multi_line set or not, the grid has at least n_genes + 2
\* cells, so the loop over the panels 0 .. n_genes + 1 meets no index error.
C13_GridHoldsPanels ==
    (fn = "plot_markers" /\ grid # NoGrid /\ Len(genes) >= 1) =>
        /\ grid.n_row * grid.n_col >= Len(genes) + 2
        /\ outcome # "IndexError"

====
